---- MODULE Spec2Model ----
(***************************************************************************)
(* Model of create-odoo-lxc.py: the interactive workflow of main() that    *)
(* creates a Proxmox LXC container and installs Odoo in it, together with  *)
(* the helpers it calls (ask, confirm_action, run_command,                 *)
(* enable_storage_content, show_storages, check_custom_modules,            *)
(* create_odoo_install_script).                                            *)
(*                                                                         *)
(* Text that the program inspects character by character (prompt answers,  *)
(* the module list of the generated install script) is a sequence of       *)
(* one-character strings.  Text that the program only passes on (storage   *)
(* names, command names) is a TLA+ string.                                 *)
(***************************************************************************)
EXTENDS Integers, Sequences, FiniteSets, TLC

----------------------------------------------------------------------------
(* Bounds of the model *)

\* longest answer typed at the container-id prompt (SpecAsk)
MaxLen == 4
\* largest used/total figure of a storage backend (SpecStorages)
MaxSize == 4
\* longest initial content list of the selected backend (SpecEnable)
MaxContent == 2

(* Program constants *)

\* range(30) of the readiness loop
MaxAttempts == 30

----------------------------------------------------------------------------
(* Characters and Python string helpers *)

Digits == {"0", "1", "2", "3", "4", "5", "6", "7", "8", "9"}
UpperSeq == <<"A", "B", "C", "D", "E", "F", "G", "H", "I", "J", "K", "L", "M",
              "N", "O", "P", "Q", "R", "S", "T", "U", "V", "W", "X", "Y", "Z">>
LowerSeq == <<"a", "b", "c", "d", "e", "f", "g", "h", "i", "j", "k", "l", "m",
              "n", "o", "p", "q", "r", "s", "t", "u", "v", "w", "x", "y", "z">>
Upper == {UpperSeq[i] : i \in 1..26}
Lower == {LowerSeq[i] : i \in 1..26}
\* the characters str.strip() removes, those for which str.isspace() holds;
\* a character that a TLA+ string cannot hold is written by its code point
Whitespace ==
    {"\t", "\n", "U+000B", "\f", "\r", "U+001C", "U+001D", "U+001E", "U+001F", " ",
     "U+0085", "U+00A0", "U+1680", "U+2000", "U+2001", "U+2002", "U+2003",
     "U+2004", "U+2005", "U+2006", "U+2007", "U+2008", "U+2009", "U+200A",
     "U+2028", "U+2029", "U+202F", "U+205F", "U+3000"}

\* Python's None and an unbound local name, in positions that otherwise hold text
None == <<"<None>">>
Unbound == <<"<unbound>">>

\* str.strip()
RECURSIVE LStrip(_)
LStrip(s) == IF s # <<>> /\ Head(s) \in Whitespace THEN LStrip(Tail(s)) ELSE s
RECURSIVE RStrip(_)
RStrip(s) ==
    IF s # <<>> /\ s[Len(s)] \in Whitespace
    THEN RStrip(SubSeq(s, 1, Len(s) - 1)) ELSE s
strip(s) == RStrip(LStrip(s))

\* s.lower().startswith('y'): y and Y are the only characters whose lower
\* case starts with y, and the lower case of a text starts with that of its
\* first character
lower_startswith_y(s) == s # <<>> /\ s[1] \in {"y", "Y"}

AllIn(s, chars) == \A i \in 1..Len(s) : s[i] \in chars

\* s.split(sep) for a one-character separator
RECURSIVE split(_, _)
split(s, sep) ==
    IF \A i \in 1..Len(s) : s[i] # sep
    THEN <<s>>
    ELSE LET k == CHOOSE i \in 1..Len(s) :
                      s[i] = sep /\ \A j \in 1..(i - 1) : s[j] # sep
         IN  <<SubSeq(s, 1, k - 1)>> \o split(SubSeq(s, k + 1, Len(s)), sep)

----------------------------------------------------------------------------
(* The validation patterns of the prompts, by the regular expression each  *)
(* names.  re.match anchors at the start; every pattern but "." ends in $, *)
(* and an answer has no line break (input() returns one line, stripped).   *)

PatVmId == "^[1-9][0-9]{2}$"
PatDigits == "^[0-9]+$"
PatAny == "."
PatHost == "^[a-zA-Z0-9][-a-zA-Z0-9]*$"
PatIp == "^[0-9]+\\.[0-9]+\\.[0-9]+\\.[0-9]+$"
PatUser == "^[a-z][a-z0-9_-]*$"
PatMac == "^([0-9A-Fa-f]{2}[:-]){5}([0-9A-Fa-f]{2})$"
NoPattern == "None"
HexDigits == Digits \cup {"a", "b", "c", "d", "e", "f", "A", "B", "C", "D", "E", "F"}

\* re_match with the container-id pattern letting a zero lead
re_match_leading_zero(validation, s) ==
    CASE validation = PatVmId ->
            /\ Len(s) = 3
            /\ s[1] \in Digits
            /\ s[2] \in Digits
            /\ s[3] \in Digits
      [] validation = PatDigits -> Len(s) >= 1 /\ AllIn(s, Digits)
      [] validation = PatAny -> Len(s) >= 1
      [] validation = PatHost ->
            /\ Len(s) >= 1
            /\ s[1] \in Lower \cup Upper \cup Digits
            /\ AllIn(Tail(s), Lower \cup Upper \cup Digits \cup {"-"})
      [] validation = PatIp ->
            LET f == split(s, ".")
            IN  Len(f) = 4 /\ \A i \in 1..4 : Len(f[i]) >= 1 /\ AllIn(f[i], Digits)
      [] validation = PatUser ->
            /\ Len(s) >= 1
            /\ s[1] \in Lower
            /\ AllIn(Tail(s), Lower \cup Digits \cup {"_", "-"})
      [] validation = PatMac ->
            /\ Len(s) = 17
            /\ \A i \in 1..17 : IF i % 3 = 0 THEN s[i] \in {":", "-"} ELSE s[i] \in HexDigits

re_match(validation, s) ==
    CASE validation = PatVmId ->
            /\ Len(s) = 3
            /\ s[1] \in Digits \ {"0"}
            /\ s[2] \in Digits
            /\ s[3] \in Digits
      [] validation = PatDigits -> Len(s) >= 1 /\ AllIn(s, Digits)
      [] validation = PatAny -> Len(s) >= 1
      [] validation = PatHost ->
            /\ Len(s) >= 1
            /\ s[1] \in Lower \cup Upper \cup Digits
            /\ AllIn(Tail(s), Lower \cup Upper \cup Digits \cup {"-"})
      [] validation = PatIp ->
            LET f == split(s, ".")
            IN  Len(f) = 4 /\ \A i \in 1..4 : Len(f[i]) >= 1 /\ AllIn(f[i], Digits)
      [] validation = PatUser ->
            /\ Len(s) >= 1
            /\ s[1] \in Lower
            /\ AllIn(Tail(s), Lower \cup Digits \cup {"_", "-"})
      [] validation = PatMac ->
            /\ Len(s) = 17
            /\ \A i \in 1..17 : IF i % 3 = 0 THEN s[i] \in {":", "-"} ELSE s[i] \in HexDigits

\* One turn of ask's loop on the line the operator typed: the value it
\* returns, a warning and a new prompt, or the TypeError of matching None.
ask(raw, default, validation) ==
    LET user_input == IF strip(raw) # <<>> THEN strip(raw) ELSE default
    IN  IF validation = NoPattern
        THEN [kind |-> "return", value |-> user_input]
        ELSE IF user_input = None
        THEN [kind |-> "TypeError", value |-> user_input]
        ELSE IF re_match(validation, user_input)
        THEN [kind |-> "return", value |-> user_input]
        ELSE [kind |-> "warning", value |-> user_input]

\* confirm_action on the line the operator typed
confirm_action(raw, default) ==
    IF strip(raw) # <<>> THEN lower_startswith_y(strip(raw)) ELSE lower_startswith_y(default)

\* run_command with the except branch returning None whatever exit_on_error is
run_command_never_exits(ok, exit_on_error) ==
    IF ok THEN "stdout" ELSE "None"

\* run_command: what a call comes to, given whether the command succeeded
run_command(ok, exit_on_error) ==
    IF ok THEN "stdout" ELSE IF exit_on_error THEN "exit" ELSE "None"

\* int() of a string of decimal digits
DigitValue(c) ==
    CASE c = "0" -> 0 [] c = "1" -> 1 [] c = "2" -> 2 [] c = "3" -> 3
      [] c = "4" -> 4 [] c = "5" -> 5 [] c = "6" -> 6 [] c = "7" -> 7
      [] c = "8" -> 8 [] c = "9" -> 9
RECURSIVE int(_)
int(s) ==
    IF s = <<>> THEN 0
    ELSE 10 * int(SubSeq(s, 1, Len(s) - 1)) + DigitValue(s[Len(s)])

----------------------------------------------------------------------------
(* Storage backends.  A backend is a record of pvesh's JSON: its name, its *)
(* content types (the comma-separated "content" text, one element per      *)
(* type, <<>> for '' or a missing key) and its total and used bytes.       *)

Num(n) == [t |-> "num", v |-> n]
\* the 'N/A' that info.get(key, 'N/A') yields for a missing key
NotAvailable == [t |-> "str", v |-> 0]

Backend(name, content, total, used) ==
    [storage |-> name, content |-> content, total |-> total, used |-> used]

\* next((item for item in storage_data if item['storage'] == name), None)
HasStorage(data, name) == \E i \in 1..Len(data) : data[i].storage = name
FindStorage(data, name) ==
    data[CHOOSE i \in 1..Len(data) :
            data[i].storage = name /\ \A j \in 1..(i - 1) : data[j].storage # name]

InList(x, list) == \E i \in 1..Len(list) : list[i] = x

\* content.split(',') if content else []
content_list(content) == IF content # <<>> THEN content ELSE <<>>

\* new_content with the type replacing the list
new_content_replaces(content, content_type) ==
    <<content_type>>

\* f"{content},{content_type}" if content else content_type
new_content(content, content_type) ==
    IF content # <<>> THEN Append(content, content_type) ELSE <<content_type>>

\* the host's table after pvesh set /storage/<storage> --content <content>
SetContent(data, name, content) ==
    [i \in 1..Len(data) |->
        IF data[i].storage = name THEN [data[i] EXCEPT !.content = content]
        ELSE data[i]]

\* the host's table once its k-th backend has gone offline
Without(data, k) == [i \in 1..(Len(data) - 1) |-> IF i < k THEN data[i] ELSE data[i + 1]]

TxtLocal == <<"l", "o", "c", "a", "l">>
TxtZfs == <<"z", "f", "s">>

\* the hosts of the workflow specification
HostChoices ==
    { <<>> }
    \cup { <<Backend(TxtLocal, c, Num(4), Num(1))>> :
             c \in { <<>>, <<"vztmpl", "rootdir">> } }
    \cup { <<Backend(TxtLocal, <<"vztmpl", "iso">>, Num(0), Num(0)),
             Backend(TxtZfs, <<"rootdir">>, NotAvailable, Num(2))>> }

----------------------------------------------------------------------------
(* check_custom_modules: the modules directory as os.listdir returns it *)

Entry(name, isdir, manifest) == [name |-> name, isdir |-> isdir, manifest |-> manifest]

RECURSIVE ModulesOf(_)
ModulesOf(items) ==
    IF items = <<>> THEN <<>>
    ELSE (IF Head(items).isdir /\ Head(items).manifest
          THEN <<Head(items).name>> ELSE <<>>) \o ModulesOf(Tail(items))

check_custom_modules(dir) == IF ~dir.exists THEN <<>> ELSE ModulesOf(dir.items)

\* the modules directories of the workflow specification
ModuleDirChoices ==
    { [exists |-> FALSE, items |-> <<>>],
      [exists |-> TRUE, items |-> <<Entry(<<"r">>, FALSE, TRUE), Entry(<<"x">>, TRUE, FALSE)>>],
      [exists |-> TRUE, items |-> <<Entry(<<"b">>, TRUE, TRUE), Entry(<<"x">>, TRUE, FALSE),
                                     Entry(<<"a">>, TRUE, TRUE)>>] }

----------------------------------------------------------------------------
(* show_storages: what is displayed for one backend *)

IsNumber(x) == x.t = "num"

\* 2^e modulo 25
RECURSIVE Pow2Mod25(_)
Pow2Mod25(e) == IF e = 0 THEN 1 ELSE (2 * Pow2Mod25(e - 1)) % 25

\* the e with 2^e <= t/200 < 2^(e+1), for t >= 1
RECURSIVE ExponentUp(_, _)
ExponentUp(t, e) == IF 200 * 2^(e + 1) <= t THEN ExponentUp(t, e + 1) ELSE e
RECURSIVE ExponentDown(_, _)
ExponentDown(t, j) == IF t * 2^j < 200 THEN ExponentDown(t, j + 1) ELSE -j
Exponent(t) == IF t >= 200 THEN ExponentUp(t, 0) ELSE ExponentDown(t, 0)

\* f"{n/d:.2f}" in hundredths: n/d is the double nearest to the quotient and
\* the format rounds that double to two decimals.  Off a decimal tie this is
\* the quotient rounded to the nearest hundredth.  On a tie the quotient is
\* t/200 for the odd t = 2k+1: when 25 divides t the double is the quotient
\* itself and the tie goes to the even hundredth; otherwise the quotient lies
\* between two doubles, which are 2^(e-52) apart, and the hundredth follows
\* the side on which the nearest double lies: above when the remainder of
\* t * 2^(52-e-3) modulo 25 is more than half of 25.
Round2(n, d) ==
    LET k == (n * 100) \div d
        r == (n * 100) % d
        t == 2 * k + 1
    IN  IF 2 * r # d THEN (IF 2 * r > d THEN k + 1 ELSE k)
        ELSE IF t % 25 = 0 THEN (IF k % 2 = 1 THEN k + 1 ELSE k)
        ELSE IF ((t % 25) * Pow2Mod25(52 - Exponent(t) - 3)) % 25 >= 13 THEN k + 1
        ELSE k

\* Python's / on numbers
Divide(n, d) ==
    IF d = 0 THEN [t |-> "ZeroDivisionError", v |-> 0]
    ELSE [t |-> "hundredths", v |-> Round2(n, d)]

\* format_size(size)
format_size(size) ==
    IF IsNumber(size) THEN Divide(size.v, 1024 * 1024 * 1024) ELSE NotAvailable

\* used_percent without the test for a positive total
used_percent_unguarded(used, total) ==
    IF IsNumber(used) /\ IsNumber(total)
    THEN Divide(used.v * 100, total.v)
    ELSE NotAvailable

used_percent(used, total) ==
    IF IsNumber(used) /\ IsNumber(total) /\ total.v > 0
    THEN Divide(used.v * 100, total.v)
    ELSE NotAvailable

ShowStorage(info) ==
    [name |-> info.storage,
     total_display |-> format_size(info.total),
     used_display |-> format_size(info.used),
     used_percent |-> used_percent(info.used, info.total),
     rootdir_support |-> InList("rootdir", info.content),
     vztmpl_support |-> InList("vztmpl", info.content)]

\* lines 67-68: each name is looked up again, which finds the first backend
\* of that name
show_storages(data) ==
    [i \in 1..Len(data) |-> ShowStorage(FindStorage(data, data[i].storage))]

Raises(shown) ==
    \E i \in 1..Len(shown) :
        "ZeroDivisionError" \in {shown[i].total_display.t, shown[i].used_display.t,
                                 shown[i].used_percent.t}

----------------------------------------------------------------------------
(* Texts of the program and the answers and command outputs of the         *)
(* workflow specification                                                  *)

Txt100 == <<"1", "0", "0">>
TxtOdooServer == <<"o", "d", "o", "o", "-", "s", "e", "r", "v", "e", "r">>
TxtCambiame == <<"C", "a", "m", "b", "i", "a", "m", "e", "1", "2", "3">>
Txt4096 == <<"4", "0", "9", "6">>
Txt20 == <<"2", "0">>
Txt2 == <<"2">>
Txt32 == <<"3", "2">>
TxtDns == <<"9", ".", "9", ".", "9", ".", "9", ",", "1", ".", "1", ".", "1", ".", "1">>
TxtFallbackIp == <<"1", "9", "2", ".", "1", "6", "8", ".", "1", ".", "1", "0", "0">>
TxtFallbackMask == <<"2", "4">>
TxtFallbackGateway == <<"1", "9", "2", ".", "1", "6", "8", ".", "1", ".", "1">>
TxtOdoo18 == <<"o", "d", "o", "o", "1", "8">>
TxtAdmin2025 == <<"a", "d", "m", "i", "n", "2", "0", "2", "5">>
TxtVersion == <<"1", "8", ".", "0">>
TxtSlash32 == <<"/", "3", "2">>

\* what the host answers the probes with, and what the operator types
HostInterface == <<"v", "m", "b", "r", "0">>
HostCidr == <<"1", "0", ".", "0", ".", "0", ".", "5", "/", "2", "4">>
HostGateway == <<"1", "0", ".", "0", ".", "0", ".", "1">>
TypedIp == <<"8", ".", "8", ".", "4", ".", "4">>
TypedGateway == <<"1", "9", "2", ".", "1", "6", "8", ".", "1", ".", "1">>
TypedMac == <<"0", "2", ":", "0", "0", ":", "0", "0", ":", "a", "a", ":", "b", "b", ":", "0", "1">>

\* line 401
template ==
    <<"u", "b", "u", "n", "t", "u", "-", "2", "4", ".", "0", "4", "-", "s",
      "t", "a", "n", "d", "a", "r", "d", "_", "2", "4", ".", "0", "4", "-",
      "2", "_", "a", "m", "d", "6", "4", ".", "t", "a", "r", ".", "z", "s",
      "t">>
TxtVztmpl == <<":", "v", "z", "t", "m", "p", "l", "/">>
\* the volume id pveam download gives the template on a backend
TemplateVolid(name) == name \o TxtVztmpl \o template
OtherVolid ==
    <<"l", "o", "c", "a", "l", ":", "i", "s", "o", "/", "u", "b", "u", "n",
      "t", "u", "-", "2", "4", ".", "0", "4", "-", "s", "t", "a", "n", "d",
      "a", "r", "d", "_", "2", "4", ".", "0", "4", "-", "2", "_", "a", "m",
      "d", "6", "4", ".", "t", "a", "r", ".", "z", "s", "t", ".", "p", "a",
      "r", "t">>

\* s.endswith(suffix)
endswith(s, suffix) ==
    Len(s) >= Len(suffix) /\ SubSeq(s, Len(s) - Len(suffix) + 1, Len(s)) = suffix

\* any(item.get('volid', '').endswith(template) for item in template_content);
\* an item without a volid is <<>>
\* template_exists taking any listed volume for the template
template_exists_any_volume(template_content) ==
    \E i \in 1..Len(template_content) : TRUE

template_exists(template_content) ==
    \E i \in 1..Len(template_content) : endswith(template_content[i], template)

\* what the content listing of the backend name may hold: other volumes
\* (one of them without a volid), with or without the template
VolumeChoices(name) == { <<OtherVolid, <<>>>>, <<OtherVolid, TemplateVolid(name)>> }

----------------------------------------------------------------------------
(* create_odoo_install_script: the generated script, by its parts that     *)
(* depend on the arguments.  for_in is the word list of the copy loop's    *)
(* "for module in ...; do" line, as text.                                  *)

Quoted(m) == <<"\"">> \o m \o <<"\"">>

\* ', '.join([f'"{m}"' for m in custom_modules])
RECURSIVE custom_modules_str(_)
custom_modules_str(modules) ==
    IF modules = <<>> THEN <<>>
    ELSE IF Len(modules) = 1 THEN Quoted(modules[1])
    ELSE Quoted(modules[1]) \o <<",", " ">> \o custom_modules_str(Tail(modules))

create_odoo_install_script(odoo_version, db_pass, odoo_user, modules) ==
    LET has_custom_modules == Len(modules) > 0
    IN  [odoo_version |-> odoo_version,
         db_pass |-> db_pass,
         odoo_user |-> odoo_user,
         custom_block |-> has_custom_modules,
         for_in |-> IF has_custom_modules THEN custom_modules_str(modules) ELSE <<>>,
         addons_path |-> IF has_custom_modules
                         THEN "/opt/odoo18/addons,/opt/odoo18/custom_addons"
                         ELSE "/opt/odoo18/addons"]

\* The words bash iterates over for a word list: blanks outside double
\* quotes separate words, the quotes themselves are removed.
RECURSIVE Words(_, _, _, _)
Words(text, word, quoted, started) ==
    IF text = <<>> THEN (IF started THEN <<word>> ELSE <<>>)
    ELSE IF Head(text) = "\"" THEN Words(Tail(text), word, ~quoted, TRUE)
    ELSE IF Head(text) = " " /\ ~quoted
    THEN (IF started THEN <<word>> ELSE <<>>) \o Words(Tail(text), <<>>, FALSE, FALSE)
    ELSE Words(Tail(text), Append(word, Head(text)), quoted, TRUE)

BashWords(text) == Words(text, <<>>, FALSE, FALSE)

Range(f) == {f[i] : i \in DOMAIN f}

\* the copy loop run in the container: cp -r /tmp/custom_modules/$module
\* succeeds for the words that name a directory there
CopyLoop(script, extracted) ==
    IF script.custom_block
    THEN SelectSeq(BashWords(script.for_in), LAMBDA w : w \in extracted)
    ELSE <<>>

\* netplan_config with the address written without its prefix length
netplan_config_no_prefix(cfg) ==
    [addresses |-> cfg["ip_address"],
     gateway4 |-> cfg["gateway"],
     nameservers |-> cfg["dns_servers"],
     route_to |-> cfg["gateway"] \o TxtSlash32]

\* lines 439-452: the netplan file, by the values it embeds
netplan_config(cfg) ==
    [addresses |-> cfg["ip_address"] \o TxtSlash32,
     gateway4 |-> cfg["gateway"],
     nameservers |-> cfg["dns_servers"],
     route_to |-> cfg["gateway"] \o TxtSlash32]

\* lines 415-431: the pct create command, by the values it embeds
create_cmd(cfg, name) ==
    [vm_id |-> cfg["vm_id"],
     ostemplate |-> TemplateVolid(name),
     hostname |-> cfg["hostname"],
     password |-> cfg["password"],
     rootfs |-> <<name, cfg["disk"]>>,
     memory |-> cfg["memory"],
     cores |-> cfg["cores"],
     ip |-> cfg["ip_address"] \o <<"/">> \o cfg["netmask"],
     gw |-> cfg["gateway"],
     hwaddr |-> IF cfg["public_ip"] THEN cfg["mac_address"] ELSE <<>>,
     nameserver |-> cfg["dns_servers"]]

----------------------------------------------------------------------------
VARIABLES
    pc,             \* the statement of main() about to run
    exit_code,      \* "none" while the process runs, then "0", "1" or "unhandled"
    msgs,           \* the one-off messages printed so far
    cmds,           \* the commands run outside the readiness loop, in order
    last_cmd,       \* the last run_command call and what it came to
    typed,          \* the line last typed at an ask prompt
    custom_modules, \* check_custom_modules()[0]
    host_storage,   \* the host's storage table
    storage_data,   \* the program's copy of it
    storage,        \* the selected backend's name
    content_type,   \* the content type enable_storage_content is checking
    support,        \* per content type: how the selected backend came to support it
    shown,          \* what show_storages displayed
    ask_warning,    \* whether the last turn of ask printed its warning
    mac_error,      \* whether the last turn of the MAC loop printed its error
    use_public_ip,
    default_interface, default_cidr,
    default_suggested_ip, default_mask, default_gateway,
    host_volumes,   \* the volume ids on the selected backend
    template_content, \* the program's listing of them
    host_tmp,       \* the files the program keeps in the host's /tmp
    ct,             \* the container
    attempt,        \* the readiness loop's counter
    network_check_shown,
    last_probe,     \* the last probe of the readiness loop
    mod_i,          \* the position of the transfer loop in custom_modules
    return_code,    \* the install script's exit status
    config          \* the configuration mapping

\* the locals of the network-default probes, lines 315-328
net == <<use_public_ip, default_interface, default_cidr,
         default_suggested_ip, default_mask, default_gateway>>

stor == <<host_storage, storage_data, storage, content_type, support, shown>>
hist == <<cmds, last_cmd>>

\* the prompt state of ask
prompt == <<typed, ask_warning, mac_error>>

files == <<host_volumes, template_content, host_tmp, ct>>
poll == <<attempt, network_check_shown, last_probe>>
inst == <<mod_i, return_code>>
\* what the statements before the container's creation leave alone
later == <<files, poll, inst>>
\* what the statements from the container's creation on leave alone
settled == <<custom_modules, host_storage, storage_data, storage, content_type, support,
             shown, config, prompt, use_public_ip, default_interface,
             default_cidr, default_suggested_ip, default_mask, default_gateway>>

vars == <<pc, exit_code, msgs, cmds, last_cmd, custom_modules, host_storage, storage_data,
          storage, content_type, support, shown, config, prompt, net, later>>

\* the container before pct create; pending: the install script is running
\* in it, not waited for, with its copy loop still ahead
NoContainer ==
    [created |-> FALSE, netplan |-> <<>>, net_applied |-> FALSE, tars |-> {},
     custom_modules |-> {}, install_sh |-> <<>>, executable |-> FALSE,
     custom_addons |-> <<>>, pending |-> FALSE]

NoCmd == [c |-> "", exit_on_error |-> TRUE, ok |-> TRUE, result |-> "stdout"]

InitWith(start, host) ==
    /\ pc = start
    /\ exit_code = "none"
    /\ msgs = {}
    /\ cmds = <<>>
    /\ last_cmd = NoCmd
    /\ typed = <<>>
    /\ custom_modules = <<>>
    /\ host_storage = host
    /\ storage_data = <<>>
    /\ storage = <<>>
    /\ content_type = ""
    /\ support = [t \in {"rootdir", "vztmpl"} |-> "unchecked"]
    /\ shown = <<>>
    /\ config = <<>>
    /\ ask_warning = FALSE
    /\ mac_error = FALSE
    /\ use_public_ip = FALSE
    /\ default_interface = Unbound
    /\ default_cidr = Unbound
    /\ default_suggested_ip = Unbound
    /\ default_mask = Unbound
    /\ default_gateway = Unbound
    /\ host_volumes = <<>>
    /\ template_content = <<>>
    /\ host_tmp = [netcfg |-> <<>>, tars |-> {}, install_sh |-> <<>>]
    /\ ct = NoContainer
    /\ attempt = -1
    /\ network_check_shown = FALSE
    /\ last_probe = [attempt |-> -1, c |-> "", ok |-> FALSE]
    /\ mod_i = 0
    /\ return_code = -1

Init == \E host \in HostChoices : InitWith("welcome", host)

----------------------------------------------------------------------------
(* Building blocks of the actions *)

\* sys.exit(0)
Exit0 == pc' = "exited" /\ exit_code' = "0"

\* error_exit(text)
ErrorExit == pc' = "exited" /\ exit_code' = "1" /\ msgs' = msgs \cup {"ERROR"}

\* run_command(command, exit_on_error) with the command succeeding or not;
\* the caller goes on at next unless the call ends the process
Call(c, a, ok, exit_on_error, next) ==
    /\ last_cmd' = [c |-> c, exit_on_error |-> exit_on_error, ok |-> ok,
                    result |-> run_command(ok, exit_on_error)]
    /\ IF run_command(ok, exit_on_error) = "exit"
       THEN ErrorExit
       ELSE pc' = next /\ UNCHANGED <<exit_code, msgs>>

Run(c, a, ok, next) ==
    /\ cmds' = Append(cmds, [c |-> c, a |-> a])
    /\ Call(c, a, ok, TRUE, next)

ConfirmAnswers == { <<>>, <<"n">>, <<" ", "Y">> }

----------------------------------------------------------------------------
(* main(), lines 254-297: requirements, custom modules, storage *)

Welcome ==
    /\ pc = "welcome"
    /\ \E raw \in ConfirmAnswers :
          IF confirm_action(raw, <<"Y">>)
          THEN pc' = "check_root" /\ UNCHANGED exit_code
          ELSE Exit0
    /\ UNCHANGED <<msgs, cmds, last_cmd, custom_modules, host_storage,
                   storage_data, storage, content_type, support, shown, config, prompt, net, later>>

CheckRoot ==
    /\ pc = "check_root"
    /\ \E euid \in {0, 1000} :
          IF euid # 0 THEN ErrorExit
          ELSE pc' = "check_deps" /\ UNCHANGED <<exit_code, msgs>>
    /\ UNCHANGED <<cmds, last_cmd, custom_modules, host_storage,
                   storage_data, storage, content_type, support, shown, config, prompt, net, later>>

CheckDeps ==
    /\ pc = "check_deps"
    /\ \E missing_deps \in { <<>>, <<"curl">> } :
          IF missing_deps # <<>>
          THEN pc' = "deps_confirm" /\ msgs' = msgs \cup {"WARNING missing deps"}
          ELSE pc' = "check_modules" /\ UNCHANGED msgs
    /\ UNCHANGED <<exit_code, cmds, last_cmd, custom_modules, host_storage,
                   storage_data, storage, content_type, support, shown, config, prompt, net, later>>

DepsConfirm ==
    /\ pc = "deps_confirm"
    /\ \E raw \in ConfirmAnswers :
          IF confirm_action(raw, <<"Y">>)
          THEN pc' = "deps_install" /\ UNCHANGED <<exit_code, msgs>>
          ELSE ErrorExit
    /\ UNCHANGED <<cmds, last_cmd, custom_modules, host_storage,
                   storage_data, storage, content_type, support, shown, config, prompt, net, later>>

DepsInstall ==
    /\ pc = "deps_install"
    /\ \E ok \in BOOLEAN : Run("apt update && apt install", <<>>, ok, "check_modules")
    /\ UNCHANGED <<custom_modules, host_storage,
                   storage_data, storage, content_type, support, shown, config, prompt, net, later>>

CheckModules ==
    /\ pc = "check_modules"
    /\ \E dir \in ModuleDirChoices :
          /\ custom_modules' = check_custom_modules(dir)
          /\ pc' = IF check_custom_modules(dir) # <<>> THEN "gsd_hostname" ELSE "modules_confirm"
    /\ UNCHANGED <<exit_code, msgs, cmds, last_cmd, host_storage,
                   storage_data, storage, content_type, support, shown, config, prompt, net, later>>

ModulesConfirm ==
    /\ pc = "modules_confirm"
    /\ \E raw \in ConfirmAnswers :
          IF confirm_action(raw, <<"Y">>)
          THEN pc' = "gsd_hostname" /\ UNCHANGED <<exit_code, msgs>>
          ELSE ErrorExit
    /\ UNCHANGED <<cmds, last_cmd, custom_modules, host_storage,
                   storage_data, storage, content_type, support, shown, config, prompt, net, later>>

GetStorageHostname ==
    /\ pc = "gsd_hostname"
    /\ \E ok \in BOOLEAN : Run("hostname", <<>>, ok, "gsd_pvesh")
    /\ UNCHANGED <<custom_modules, host_storage,
                   storage_data, storage, content_type, support, shown, config, prompt, net, later>>

\* a backend of the host goes offline between a pvesh set and the new listing
StorageOffline ==
    /\ pc = "gsd_hostname"
    /\ content_type \in {"rootdir", "vztmpl"}
    /\ \E k \in 1..Len(host_storage) : host_storage' = Without(host_storage, k)
    /\ UNCHANGED <<pc, exit_code, msgs, cmds, last_cmd, custom_modules,
                   storage_data, storage, content_type, support, shown, config, prompt, net, later>>

\* the listing and json.loads; get_storage_data returns to main (line 285)
\* or to enable_storage_content (line 59), which returns to main in turn
GetStoragePvesh ==
    /\ pc = "gsd_pvesh"
    /\ \E ok \in BOOLEAN :
          /\ Run("pvesh get storage", <<>>, ok,
                 CASE content_type = "" -> "storages"
                   [] content_type = "rootdir" -> "enable_check"
                   [] content_type = "vztmpl" -> "ask_vm_id")
          /\ storage_data' = IF ok THEN host_storage ELSE storage_data
          /\ content_type' = IF ok /\ content_type = "rootdir" THEN "vztmpl" ELSE content_type
    /\ UNCHANGED <<custom_modules, host_storage, storage, support, shown, config, prompt,
                   net, later>>

\* lines 286-289
Storages ==
    /\ pc = "storages"
    /\ IF storage_data = <<>>
       THEN ErrorExit /\ UNCHANGED shown
       ELSE /\ shown' = show_storages(storage_data)
            /\ IF Raises(show_storages(storage_data))
               THEN pc' = "exited" /\ exit_code' = "unhandled" /\ UNCHANGED msgs
               ELSE pc' = "select_storage" /\ UNCHANGED <<exit_code, msgs>>
    /\ UNCHANGED <<cmds, last_cmd, custom_modules, host_storage,
                   storage_data, storage, content_type, support, config, prompt, net, later>>

StorageAnswers == { <<>>, <<"2">>, <<"x">>, <<"0">> }

\* lines 290-293
SelectStorage ==
    /\ pc = "select_storage"
    /\ \E raw \in StorageAnswers :
          LET a == ask(raw, <<"1">>, PatDigits)
              storage_num == int(a.value)
          IN  /\ typed' = raw
              /\ ask_warning' = (a.kind = "warning")
              /\ IF a.kind = "warning"
                 THEN UNCHANGED <<pc, exit_code, msgs, storage, content_type>>
                 ELSE IF storage_num < 1 \/ storage_num > Len(storage_data)
                 THEN ErrorExit /\ UNCHANGED <<storage, content_type>>
                 ELSE /\ storage' = storage_data[storage_num].storage
                      /\ content_type' = "rootdir"
                      /\ pc' = "enable_check"
                      /\ UNCHANGED <<exit_code, msgs>>
    /\ UNCHANGED <<cmds, last_cmd, custom_modules, host_storage,
                   storage_data, support, shown, config, mac_error, net, later>>

\* enable_storage_content, lines 47-54 and 61-63
EnableCheck ==
    /\ pc = "enable_check"
    /\ IF ~HasStorage(storage_data, storage)
       THEN ErrorExit /\ UNCHANGED <<support, content_type>>
       ELSE IF ~InList(content_type, content_list(FindStorage(storage_data, storage).content))
       THEN /\ pc' = "enable_confirm"
            /\ UNCHANGED <<exit_code, msgs, support, content_type>>
       ELSE /\ support' = [support EXCEPT ![content_type] = "listed"]
            /\ pc' = IF content_type = "rootdir" THEN "enable_check" ELSE "ask_vm_id"
            /\ content_type' = IF content_type = "rootdir" THEN "vztmpl" ELSE content_type
            /\ UNCHANGED <<exit_code, msgs>>
    /\ UNCHANGED <<cmds, last_cmd, custom_modules, host_storage,
                   storage_data, storage, shown, config, prompt, net, later>>

\* EnableConfirm with a declined type skipped instead of ending the process
EnableConfirm_decline_skips ==
    /\ pc = "enable_confirm"
    /\ \E raw \in ConfirmAnswers :
          IF confirm_action(raw, <<"Y">>)
          THEN pc' = "enable_set" /\ UNCHANGED <<exit_code, msgs, content_type>>
          ELSE /\ pc' = IF content_type = "rootdir" THEN "enable_check" ELSE "ask_vm_id"
               /\ content_type' = "vztmpl"
               /\ UNCHANGED <<exit_code, msgs>>
    /\ UNCHANGED <<cmds, last_cmd, custom_modules, host_storage,
                   storage_data, storage, support, shown, config, prompt, net, later>>

\* line 55 and line 60
EnableConfirm ==
    /\ pc = "enable_confirm"
    /\ \E raw \in ConfirmAnswers :
          IF confirm_action(raw, <<"Y">>)
          THEN pc' = "enable_set" /\ UNCHANGED <<exit_code, msgs>>
          ELSE ErrorExit
    /\ UNCHANGED <<cmds, last_cmd, custom_modules, host_storage,
                   storage_data, storage, content_type, support, shown, config, prompt, net, later>>

\* lines 56-59
EnableSet ==
    /\ pc = "enable_set"
    /\ \E ok \in BOOLEAN :
          LET content == new_content(FindStorage(storage_data, storage).content, content_type)
          IN  /\ Run("pvesh set", content, ok, "gsd_hostname")
              /\ host_storage' = IF ok THEN SetContent(host_storage, storage, content)
                                 ELSE host_storage
              /\ support' = IF ok THEN [support EXCEPT ![content_type] = "enabled"]
                            ELSE support
    /\ UNCHANGED <<custom_modules, storage_data, storage, content_type, shown, config,
                   prompt, net, later>>

----------------------------------------------------------------------------
(* main(), lines 299-362: the configuration prompts *)

Unhandled == pc' = "exited" /\ exit_code' = "unhandled" /\ UNCHANGED msgs

\* config[key] = ask(prompt, default, validation), the operator typing one of
\* answers; an unbound default is a NameError before the prompt is shown
AskConfig(at, key, default, validation, answers, next) ==
    /\ pc = at
    /\ IF default = Unbound
       THEN Unhandled /\ UNCHANGED <<config, typed, ask_warning>>
       ELSE \E raw \in answers :
               LET a == ask(raw, default, validation)
               IN  /\ typed' = raw
                   /\ ask_warning' = (a.kind = "warning")
                   /\ CASE a.kind = "return" ->
                               /\ config' = (key :> a.value) @@ config
                               /\ pc' = next
                               /\ UNCHANGED <<exit_code, msgs>>
                        [] a.kind = "warning" -> UNCHANGED <<pc, exit_code, msgs, config>>
                        [] a.kind = "TypeError" -> Unhandled /\ UNCHANGED config
    /\ UNCHANGED <<hist, custom_modules, stor, mac_error, net, later>>

VmIdAnswers == { <<>>, <<"0", "9", "9">> }

AskVmIdFrom(answers) ==
    AskConfig("ask_vm_id", "vm_id", Txt100, PatVmId, answers, "ask_hostname")

AskVmId == AskVmIdFrom(VmIdAnswers)

AskHostname ==
    AskConfig("ask_hostname", "hostname", TxtOdooServer, PatHost, { <<>>, <<"-", "x">> },
              "ask_password")

AskPassword ==
    AskConfig("ask_password", "password", TxtCambiame, PatAny, { <<>> }, "ask_memory")

AskMemory ==
    AskConfig("ask_memory", "memory", Txt4096, PatDigits, { <<>>, <<"4", "G">> }, "ask_disk")

AskDisk == AskConfig("ask_disk", "disk", Txt20, PatDigits, { <<>> }, "ask_cores")

AskCores == AskConfig("ask_cores", "cores", Txt2, PatDigits, { <<>> }, "use_public_ip")

\* line 312
UsePublicIp ==
    /\ pc = "use_public_ip"
    /\ \E raw \in { <<>>, <<"y">> } :
          use_public_ip' = confirm_action(raw, <<"N">>)
    /\ pc' = "probe_interface"
    /\ UNCHANGED <<exit_code, msgs, hist, custom_modules, stor, config, prompt,
                   default_interface, default_cidr, default_suggested_ip, default_mask,
                   default_gateway, later>>

\* run_command(command, exit_on_error=False) whose output is out (None: it failed)
Probe(c, out, next) ==
    /\ cmds' = Append(cmds, [c |-> c, a |-> <<>>])
    /\ Call(c, <<>>, out # None, FALSE, next)

Truthy(x) == x # None /\ x # <<>>

\* what a probe comes to when subprocess.run raises something other than
\* CalledProcessError (KeyboardInterrupt, UnicodeDecodeError)
Raised == <<"<raised>">>

\* lines 327-328: run_command(c, exit_on_error=False) raised and did not
\* return; the bare except sets the three fallback defaults
ProbeRaised(c) ==
    /\ cmds' = Append(cmds, [c |-> c, a |-> <<>>])
    /\ pc' = "net_prompts"
    /\ default_suggested_ip' = TxtFallbackIp
    /\ default_mask' = TxtFallbackMask
    /\ default_gateway' = TxtFallbackGateway
    /\ UNCHANGED <<exit_code, msgs, last_cmd>>

\* lines 316-318 and 325-328
ProbeInterface ==
    /\ pc = "probe_interface"
    /\ \E out \in { Raised, None, <<>>, HostInterface } :
          IF out = Raised
          THEN /\ ProbeRaised("ip route | grep default | awk '{print $5}'")
               /\ UNCHANGED default_interface
          ELSE /\ Probe("ip route | grep default | awk '{print $5}'", out,
                        IF Truthy(out) THEN "probe_cidr" ELSE "net_prompts")
               /\ default_interface' = out
               /\ default_suggested_ip' = IF Truthy(out) THEN default_suggested_ip
                                          ELSE TxtFallbackIp
               /\ default_mask' = IF Truthy(out) THEN default_mask ELSE TxtFallbackMask
               /\ default_gateway' = IF Truthy(out) THEN <<>> ELSE TxtFallbackGateway
    /\ UNCHANGED <<custom_modules, stor, config, prompt, use_public_ip, default_cidr, later>>

\* f"{ip_parts[0]}.{ip_parts[1]}.{ip_parts[2]}.100"
suggested_ip(cidr) ==
    LET ip_parts == split(split(cidr, "/")[1], ".")
    IN  ip_parts[1] \o <<".">> \o ip_parts[2] \o <<".">> \o ip_parts[3] \o <<".", "1", "0", "0">>

\* lines 319-323 and 327-328
ProbeCidr ==
    /\ pc = "probe_cidr"
    /\ \E out \in { Raised, None, HostCidr } :
          IF out = Raised
          THEN /\ ProbeRaised("ip -f inet addr show")
               /\ UNCHANGED default_cidr
          ELSE /\ Probe("ip -f inet addr show", out,
                        IF Truthy(out) THEN "probe_gateway" ELSE "net_prompts")
               /\ default_cidr' = out
               /\ default_suggested_ip' = IF Truthy(out) THEN suggested_ip(out)
                                          ELSE default_suggested_ip
               /\ default_mask' = IF Truthy(out) THEN split(out, "/")[2] ELSE default_mask
               /\ UNCHANGED default_gateway
    /\ UNCHANGED <<custom_modules, stor, config, prompt, use_public_ip, default_interface,
                   later>>

\* line 324 and lines 327-328
ProbeGateway ==
    /\ pc = "probe_gateway"
    /\ \E out \in { Raised, None, <<>>, HostGateway } :
          IF out = Raised
          THEN ProbeRaised("ip route | grep default | awk '{print $3}'")
          ELSE /\ Probe("ip route | grep default | awk '{print $3}'", out, "net_prompts")
               /\ default_gateway' = out
               /\ UNCHANGED <<default_suggested_ip, default_mask>>
    /\ UNCHANGED <<custom_modules, stor, config, prompt, use_public_ip, default_interface,
                   default_cidr, later>>

\* line 330
NetPrompts ==
    /\ pc = "net_prompts"
    /\ pc' = IF use_public_ip THEN "ask_public_ip" ELSE "ask_local_ip"
    /\ UNCHANGED <<exit_code, msgs, hist, custom_modules, stor, config, prompt, net, later>>

GatewayAnswers == { <<>>, TypedGateway }

\* lines 331-337
AskPublicIp ==
    AskConfig("ask_public_ip", "ip_address", <<>>, PatIp, { <<>>, TypedIp },
              "ask_public_gateway")

AskPublicGateway ==
    AskConfig("ask_public_gateway", "gateway", default_gateway, PatIp, GatewayAnswers,
              "ask_public_dns")

AskPublicDns ==
    /\ AskConfig("ask_public_dns", "dns_servers", TxtDns, NoPattern, { <<>> }, "set_public")

SetPublic ==
    /\ pc = "set_public"
    /\ config' = ("netmask" :> Txt32) @@ ("public_ip" :> TRUE) @@ config
    /\ pc' = "ask_mac"
    /\ UNCHANGED <<exit_code, msgs, hist, custom_modules, stor, prompt, net, later>>

\* lines 340-345
AskMac ==
    /\ pc = "ask_mac"
    /\ \E raw \in { <<>>, <<"0", "2">>, TypedMac } :
          LET mac == ask(raw, <<>>, NoPattern).value
          IN  /\ typed' = raw
              /\ mac_error' = ~(mac # <<>> /\ re_match(PatMac, mac))
              /\ IF mac # <<>> /\ re_match(PatMac, mac)
                 THEN /\ config' = ("mac_address" :> mac) @@ config
                      /\ pc' = "ask_odoo_user"
                 ELSE UNCHANGED <<pc, config>>
    /\ UNCHANGED <<exit_code, msgs, hist, custom_modules, stor, ask_warning, net, later>>

\* lines 347-354
AskLocalIp ==
    AskConfig("ask_local_ip", "ip_address", default_suggested_ip, PatIp, { <<>>, <<"x">> },
              "ask_netmask")

AskNetmask ==
    AskConfig("ask_netmask", "netmask", default_mask, PatDigits, { <<>> }, "ask_local_gateway")

AskLocalGateway ==
    AskConfig("ask_local_gateway", "gateway", default_gateway, PatIp, GatewayAnswers,
              "ask_local_dns")

AskLocalDns ==
    AskConfig("ask_local_dns", "dns_servers", TxtDns, NoPattern, { <<>> }, "set_local")

SetLocal ==
    /\ pc = "set_local"
    /\ config' = ("public_ip" :> FALSE) @@ ("mac_address" :> None) @@ config
    /\ pc' = "ask_odoo_user"
    /\ UNCHANGED <<exit_code, msgs, hist, custom_modules, stor, prompt, net, later>>

\* lines 358-362
AskOdooUser ==
    AskConfig("ask_odoo_user", "odoo_user", TxtOdoo18, PatUser, { <<>>, <<"O">> },
              "ask_db_password")

AskDbPassword ==
    AskConfig("ask_db_password", "db_password", TxtAdmin2025, PatAny, { <<>> }, "set_odoo")

SetOdoo ==
    /\ pc = "set_odoo"
    /\ config' = ("odoo_version" :> TxtVersion) @@ config
    /\ pc' = "summary"
    /\ UNCHANGED <<exit_code, msgs, hist, custom_modules, stor, prompt, net, later>>

\* lines 365-396
Summary ==
    /\ pc = "summary"
    /\ \E raw \in ConfirmAnswers :
          IF confirm_action(raw, <<"Y">>)
          THEN pc' = "template_hostname" /\ UNCHANGED exit_code
          ELSE Exit0
    /\ UNCHANGED <<msgs, hist, custom_modules, stor, config, prompt, net, later>>

----------------------------------------------------------------------------
(* main(), lines 399-460: template, container, public-IP routing *)

\* line 403
TemplateHostname ==
    /\ pc = "template_hostname"
    /\ \E ok \in BOOLEAN : Run("hostname", <<>>, ok, "template_list")
    /\ UNCHANGED <<settled, later>>

\* lines 405-409
TemplateList ==
    /\ pc = "template_list"
    /\ \E ok \in BOOLEAN, volumes \in VolumeChoices(storage) :
          /\ host_volumes' = volumes
          /\ template_content' = IF ok THEN volumes ELSE template_content
          /\ Run("pvesh get content", storage, ok,
                 IF template_exists(volumes) THEN "create" ELSE "pveam_update")
    /\ UNCHANGED <<settled, host_tmp, ct, poll, inst>>

\* line 411
PveamUpdate ==
    /\ pc = "pveam_update"
    /\ \E ok \in BOOLEAN : Run("pveam update", <<>>, ok, "pveam_download")
    /\ UNCHANGED <<settled, later>>

\* line 412
PveamDownload ==
    /\ pc = "pveam_download"
    /\ \E ok \in BOOLEAN :
          /\ Run("pveam download", storage, ok, "create")
          /\ host_volumes' = IF ok THEN Append(host_volumes, TemplateVolid(storage))
                             ELSE host_volumes
    /\ UNCHANGED <<settled, template_content, host_tmp, ct, poll, inst>>

\* lines 415-434
Create ==
    /\ pc = "create"
    /\ \E ok \in BOOLEAN :
          /\ Run("pct create", create_cmd(config, storage), ok,
                 IF config["public_ip"] THEN "netplan_write" ELSE "poll_start")
          /\ ct' = IF ok THEN [ct EXCEPT !.created = TRUE] ELSE ct
    /\ UNCHANGED <<settled, host_volumes, template_content, host_tmp, poll, inst>>

\* lines 438-454
NetplanWrite ==
    /\ pc = "netplan_write"
    /\ host_tmp' = [host_tmp EXCEPT !.netcfg = <<netplan_config(config)>>]
    /\ pc' = "netplan_push"
    /\ UNCHANGED <<exit_code, msgs, hist, settled, host_volumes, template_content, ct,
                   poll, inst>>

\* line 456
NetplanPush ==
    /\ pc = "netplan_push"
    /\ \E ok \in BOOLEAN :
          /\ Run("pct push 01-netcfg.yaml", <<>>, ok, "netplan_chmod")
          /\ ct' = IF ok THEN [ct EXCEPT !.netplan = host_tmp.netcfg] ELSE ct
    /\ UNCHANGED <<settled, host_volumes, template_content, host_tmp, poll, inst>>

\* line 457
NetplanChmod ==
    /\ pc = "netplan_chmod"
    /\ \E ok \in BOOLEAN : Run("pct exec chmod 644 01-netcfg.yaml", <<>>, ok, "netplan_rm_default")
    /\ UNCHANGED <<settled, later>>

\* line 458
NetplanRmDefault ==
    /\ pc = "netplan_rm_default"
    /\ \E ok \in BOOLEAN : Run("pct exec rm -f 10-*.yaml", <<>>, ok, "netplan_apply")
    /\ UNCHANGED <<settled, later>>

\* line 459
NetplanApply ==
    /\ pc = "netplan_apply"
    /\ \E ok \in BOOLEAN :
          /\ Run("pct exec netplan apply", <<>>, ok, "netplan_rm_tmp")
          /\ ct' = IF ok THEN [ct EXCEPT !.net_applied = TRUE] ELSE ct
    /\ UNCHANGED <<settled, host_volumes, template_content, host_tmp, poll, inst>>

\* line 460
NetplanRmTmp ==
    /\ pc = "netplan_rm_tmp"
    /\ \E ok \in BOOLEAN :
          /\ Run("rm /tmp/01-netcfg.yaml", <<>>, ok, "poll_start")
          /\ host_tmp' = IF ok THEN [host_tmp EXCEPT !.netcfg = <<>>] ELSE host_tmp
    /\ UNCHANGED <<settled, host_volumes, template_content, ct, poll, inst>>

----------------------------------------------------------------------------
(* main(), lines 462-489: the readiness loop.  attempt is the loop's       *)
(* counter: the pass under way, and after the loop the last pass made.     *)

\* NextPass with range(31)
NextPass_one_more ==
    IF attempt + 1 < MaxAttempts + 1
    THEN pc' = "poll_status" /\ attempt' = attempt + 1
    ELSE pc' = "poll_end" /\ attempt' = attempt

\* the end of a pass that did not break: the next pass, or the loop is exhausted
NextPass ==
    IF attempt + 1 < MaxAttempts
    THEN pc' = "poll_status" /\ attempt' = attempt + 1
    ELSE pc' = "poll_end" /\ attempt' = attempt

StatusOutcomes == { "failed", "running", "stopped" }

\* lines 463-466: the loop is entered
PollStart ==
    /\ pc = "poll_start"
    /\ network_check_shown' = FALSE
    /\ attempt' = 0
    /\ pc' = "poll_status"
    /\ UNCHANGED <<exit_code, msgs, hist, settled, files, last_probe, inst>>

\* lines 467-477 (and 483 when the pass ends here): the status query
PollStatus ==
    /\ pc = "poll_status"
    /\ \E out \in StatusOutcomes :
          /\ last_cmd' = [c |-> "pvesh get status", exit_on_error |-> FALSE,
                          ok |-> out # "failed",
                          result |-> run_command(out # "failed", FALSE)]
          /\ last_probe' = [attempt |-> attempt, c |-> "status", ok |-> out # "failed"]
          /\ IF run_command(out # "failed", FALSE) = "exit"
             THEN ErrorExit /\ UNCHANGED <<attempt, network_check_shown>>
             ELSE IF run_command(out # "failed", FALSE) = "stdout" /\ out = "running"
             THEN /\ network_check_shown' = TRUE
                  /\ pc' = "poll_ping"
                  /\ UNCHANGED <<attempt, exit_code, msgs>>
             ELSE /\ NextPass
                  /\ UNCHANGED <<network_check_shown, exit_code, msgs>>
    /\ UNCHANGED <<cmds, settled, files, inst>>

\* lines 479-481 (and 483 when the ping fails)
PollPing ==
    /\ pc = "poll_ping"
    /\ \E ok \in BOOLEAN :
          /\ last_cmd' = [c |-> "pct exec ping", exit_on_error |-> FALSE, ok |-> ok,
                          result |-> run_command(ok, FALSE)]
          /\ last_probe' = [attempt |-> attempt, c |-> "ping", ok |-> ok]
          /\ IF run_command(ok, FALSE) = "exit"
             THEN ErrorExit /\ UNCHANGED attempt
             ELSE IF run_command(ok, FALSE) # "None"
             THEN pc' = "poll_end" /\ UNCHANGED <<attempt, exit_code, msgs>>
             ELSE NextPass /\ UNCHANGED <<exit_code, msgs>>
    /\ UNCHANGED <<cmds, settled, files, network_check_shown, inst>>

\* lines 484-489
PollEnd ==
    /\ pc = "poll_end"
    /\ msgs' = IF attempt >= MaxAttempts - 1
               THEN msgs \cup {"WARNING limited connectivity"}
               ELSE msgs
    /\ pc' = IF custom_modules # <<>> THEN "transfer_mkdir" ELSE "create_script"
    /\ UNCHANGED <<exit_code, hist, settled, files, poll, inst>>

----------------------------------------------------------------------------
(* main(), lines 491-517: the custom modules go into the container *)

\* line 497
TransferMkdir ==
    /\ pc = "transfer_mkdir"
    /\ \E ok \in BOOLEAN : Run("pct exec mkdir -p /tmp/custom_modules", <<>>, ok, "tar")
    /\ mod_i' = 1
    /\ UNCHANGED <<settled, files, poll, return_code>>

module == custom_modules[mod_i]

\* line 505
Tar ==
    /\ pc = "tar"
    /\ \E ok \in BOOLEAN :
          /\ Run("tar -czf", module, ok, "push_tar")
          /\ host_tmp' = IF ok THEN [host_tmp EXCEPT !.tars = @ \cup {module}] ELSE host_tmp
    /\ UNCHANGED <<settled, host_volumes, template_content, ct, poll, inst>>

\* line 508
PushTar ==
    /\ pc = "push_tar"
    /\ \E ok \in BOOLEAN :
          /\ Run("pct push tar", module, ok, "extract")
          /\ ct' = IF ok THEN [ct EXCEPT !.tars = @ \cup (host_tmp.tars \cap {module})] ELSE ct
    /\ UNCHANGED <<settled, host_volumes, template_content, host_tmp, poll, inst>>

\* line 511
Extract ==
    /\ pc = "extract"
    /\ \E ok \in BOOLEAN :
          /\ Run("pct exec tar -xzf", module, ok, "rm_tar")
          /\ ct' = IF ok THEN [ct EXCEPT !.custom_modules = @ \cup (ct.tars \cap {module})]
                   ELSE ct
    /\ UNCHANGED <<settled, host_volumes, template_content, host_tmp, poll, inst>>

\* line 514
RmTar ==
    /\ pc = "rm_tar"
    /\ \E ok \in BOOLEAN :
          /\ Run("rm tar", module, ok, "rm_ct_tar")
          /\ host_tmp' = IF ok THEN [host_tmp EXCEPT !.tars = @ \ {module}] ELSE host_tmp
    /\ UNCHANGED <<settled, host_volumes, template_content, ct, poll, inst>>

\* RmCtTar with the loop ending after its first pass
RmCtTar_first_only ==
    /\ pc = "rm_ct_tar"
    /\ \E ok \in BOOLEAN :
          /\ Run("pct exec rm tar", module, ok, "create_script")
          /\ ct' = IF ok THEN [ct EXCEPT !.tars = @ \ {module}] ELSE ct
          /\ mod_i' = mod_i
    /\ UNCHANGED <<settled, host_volumes, template_content, host_tmp, poll, return_code>>

\* lines 515-517, and the loop's next pass
RmCtTar ==
    /\ pc = "rm_ct_tar"
    /\ \E ok \in BOOLEAN :
          /\ Run("pct exec rm tar", module, ok,
                 IF mod_i < Len(custom_modules) THEN "tar" ELSE "create_script")
          /\ ct' = IF ok THEN [ct EXCEPT !.tars = @ \ {module}] ELSE ct
          /\ mod_i' = IF ok /\ mod_i < Len(custom_modules) THEN mod_i + 1 ELSE mod_i
    /\ UNCHANGED <<settled, host_volumes, template_content, host_tmp, poll, return_code>>

----------------------------------------------------------------------------
(* main(), lines 519-596: the install script *)

\* line 522
CreateScript ==
    /\ pc = "create_script"
    /\ host_tmp' = [host_tmp EXCEPT !.install_sh =
                       <<create_odoo_install_script(config["odoo_version"],
                             config["db_password"], config["odoo_user"], custom_modules)>>]
    /\ pc' = "push_script"
    /\ UNCHANGED <<exit_code, msgs, hist, settled, host_volumes, template_content, ct,
                   poll, inst>>

\* line 523
PushScript ==
    /\ pc = "push_script"
    /\ \E ok \in BOOLEAN :
          /\ Run("pct push odoo_install.sh", <<>>, ok, "chmod_script")
          /\ ct' = IF ok THEN [ct EXCEPT !.install_sh = host_tmp.install_sh] ELSE ct
    /\ UNCHANGED <<settled, host_volumes, template_content, host_tmp, poll, inst>>

\* line 524
ChmodScript ==
    /\ pc = "chmod_script"
    /\ \E ok \in BOOLEAN :
          /\ Run("pct exec chmod +x odoo_install.sh", <<>>, ok, "exec_script")
          /\ ct' = IF ok THEN [ct EXCEPT !.executable = TRUE] ELSE ct
    /\ UNCHANGED <<settled, host_volumes, template_content, host_tmp, poll, inst>>

\* What has become of the script when main leaves lines 529-565: it ended with
\* status 0 or 1, Popen raised OSError and nothing was started, or reading its
\* output raised UnicodeDecodeError and main went on without waiting for it.
\* Whether the copy loop was run by then: always when the script ended with
\* status 0, never when it was not started; a script that ended with status 1
\* failed before the loop or after it, and the output that cannot be decoded
\* comes before the loop or after it
CopiedChoices(outcome) ==
    CASE outcome = "0" -> {TRUE}
      [] outcome = "OSError" -> {FALSE}
      [] OTHER -> BOOLEAN

\* ExecScript with a non-zero status ending the process
ExecScript_nonzero_exits ==
    /\ pc = "exec_script"
    /\ \E outcome \in {"0", "1", "OSError", "UnicodeDecodeError"} :
          /\ return_code' = CASE outcome = "0" -> 0
                              [] outcome = "1" -> 1
                              [] OTHER -> return_code
          /\ IF outcome = "1"
             THEN ErrorExit
             ELSE /\ msgs' = msgs \cup {IF outcome = "0" THEN "SUCCESS install"
                                        ELSE "ERROR install"}
                  /\ pc' = "rm_script"
                  /\ UNCHANGED exit_code
          /\ \E copied \in CopiedChoices(outcome) :
                ct' = [ct EXCEPT
                         !.custom_addons =
                            IF copied THEN CopyLoop(ct.install_sh[1], ct.custom_modules)
                            ELSE @,
                         !.pending = ~copied /\ outcome = "UnicodeDecodeError"]
    /\ cmds' = Append(cmds, [c |-> "pct exec bash odoo_install.sh", a |-> <<>>])
    /\ UNCHANGED <<last_cmd, settled, host_volumes, template_content, host_tmp,
                   poll, mod_i>>

\* lines 529-565: Popen, the reading of the script's output and wait. The
\* except branch prints an error and leaves return_code unbound (-1); after
\* UnicodeDecodeError the script goes on in the container with its copy loop
\* still ahead (pending) unless it had run it already
ExecScript ==
    /\ pc = "exec_script"
    /\ \E outcome \in {"0", "1", "OSError", "UnicodeDecodeError"} :
          /\ return_code' = CASE outcome = "0" -> 0
                              [] outcome = "1" -> 1
                              [] OTHER -> return_code
          /\ msgs' = msgs \cup {CASE outcome = "0" -> "SUCCESS install"
                                  [] outcome = "1" -> "WARNING install exit code"
                                  [] OTHER -> "ERROR install"}
          /\ \E copied \in CopiedChoices(outcome) :
                ct' = [ct EXCEPT
                         !.custom_addons =
                            IF copied THEN CopyLoop(ct.install_sh[1], ct.custom_modules)
                            ELSE @,
                         !.pending = ~copied /\ outcome = "UnicodeDecodeError"]
    /\ cmds' = Append(cmds, [c |-> "pct exec bash odoo_install.sh", a |-> <<>>])
    /\ pc' = "rm_script"
    /\ UNCHANGED <<exit_code, last_cmd, settled, host_volumes, template_content, host_tmp,
                   poll, mod_i>>

\* the script that main did not wait for may run its copy loop while main
\* runs a later statement
ScriptGoesOn ==
    \E lands \in (IF ct.pending THEN BOOLEAN ELSE {FALSE}) :
        ct' = IF lands
              THEN [ct EXCEPT
                       !.custom_addons = CopyLoop(ct.install_sh[1], ct.custom_modules),
                       !.pending = FALSE]
              ELSE ct

\* line 567
RmScript ==
    /\ pc = "rm_script"
    /\ \E ok \in BOOLEAN :
          /\ Run("rm /tmp/odoo_install.sh", <<>>, ok, "final")
          /\ host_tmp' = IF ok THEN [host_tmp EXCEPT !.install_sh = <<>>] ELSE host_tmp
    /\ ScriptGoesOn
    /\ UNCHANGED <<settled, host_volumes, template_content, poll, inst>>

\* lines 570-596: the closing summary; main returns
Final ==
    /\ pc = "final"
    /\ msgs' = msgs \cup {"INSTALACION COMPLETADA"}
    /\ pc' = "exited"
    /\ exit_code' = "0"
    /\ ScriptGoesOn
    /\ UNCHANGED <<hist, settled, host_volumes, template_content, host_tmp, poll, inst>>

Next ==
    \/ Welcome
    \/ CheckRoot
    \/ CheckDeps
    \/ DepsConfirm
    \/ DepsInstall
    \/ CheckModules
    \/ ModulesConfirm
    \/ GetStorageHostname
    \/ StorageOffline
    \/ GetStoragePvesh
    \/ Storages
    \/ SelectStorage
    \/ EnableCheck
    \/ EnableConfirm
    \/ EnableSet
    \/ AskVmId
    \/ AskHostname
    \/ AskPassword
    \/ AskMemory
    \/ AskDisk
    \/ AskCores
    \/ UsePublicIp
    \/ ProbeInterface
    \/ ProbeCidr
    \/ ProbeGateway
    \/ NetPrompts
    \/ AskPublicIp
    \/ AskPublicGateway
    \/ AskPublicDns
    \/ SetPublic
    \/ AskMac
    \/ AskLocalIp
    \/ AskNetmask
    \/ AskLocalGateway
    \/ AskLocalDns
    \/ SetLocal
    \/ AskOdooUser
    \/ AskDbPassword
    \/ SetOdoo
    \/ Summary
    \/ TemplateHostname
    \/ TemplateList
    \/ PveamUpdate
    \/ PveamDownload
    \/ Create
    \/ NetplanWrite
    \/ NetplanPush
    \/ NetplanChmod
    \/ NetplanRmDefault
    \/ NetplanApply
    \/ NetplanRmTmp
    \/ PollStart
    \/ PollStatus
    \/ PollPing
    \/ PollEnd
    \/ TransferMkdir
    \/ Tar
    \/ PushTar
    \/ Extract
    \/ RmTar
    \/ RmCtTar
    \/ CreateScript
    \/ PushScript
    \/ ChmodScript
    \/ ExecScript
    \/ RmScript
    \/ Final

Spec == Init /\ [][Next]_vars

----------------------------------------------------------------------------
(* Properties of the readiness loop *)

InLoop == pc \in {"poll_status", "poll_ping"}
\* some pass found the container running and its ping succeeded
Succeeded == last_probe.c = "ping" /\ last_probe.ok
\* the statements after the loop (lines 486-489) have run
PollEnded == last_probe.attempt >= 0 /\ ~InLoop /\ pc # "poll_end"
LimitedWarning == "WARNING limited connectivity" \in msgs

\* C1: once the readiness loop is over, the limited-connectivity warning has
\* been printed if and only if no pass succeeded (the loop was exhausted).
C1_WarningIffExhausted == PollEnded => (LimitedWarning <=> ~Succeeded)

\* C2: the readiness loop makes at most 30 passes and every step in it makes
\* progress; it is left at the first pass whose status query reports running
\* and whose ping succeeds, and no probe follows that pass; otherwise it is
\* left only after all 30 passes; no probe ends the process.
C2_Loop ==
    /\ attempt < MaxAttempts
    /\ last_probe.attempt <= attempt
    /\ InLoop => exit_code = "none" /\ ~Succeeded
    /\ pc = "poll_status" => last_probe.attempt = attempt - 1
    /\ pc = "poll_ping" =>
          last_probe = [attempt |-> attempt, c |-> "status", ok |-> TRUE]
    /\ Succeeded => last_probe.attempt = attempt /\ ~InLoop
    /\ (pc = "poll_end" \/ PollEnded) /\ ~Succeeded =>
          attempt = MaxAttempts - 1 /\ last_probe.attempt = MaxAttempts - 1
    /\ pc = "exited" => last_cmd.c \notin {"pvesh get status", "pct exec ping"}

C2_Progress ==
    InLoop =>
        \/ pc = "poll_status" /\ pc' = "poll_ping" /\ attempt' = attempt
        \/ pc' = "poll_status" /\ attempt' = attempt + 1
        \/ pc' = "poll_end" /\ attempt' = attempt

C2_LoopTerminates == [][C2_Loop' /\ C2_Progress]_vars

\* the loop was left by a pass after the first, all earlier ones having failed
C2_Witness ==
    /\ pc = "poll_end"
    /\ Succeeded
    /\ attempt = 2
    /\ network_check_shown

----------------------------------------------------------------------------
(* Properties of run_command *)

\* the commands of the network-default probes and of the readiness probes
ProbeCommands ==
    {"ip route | grep default | awk '{print $5}'", "ip -f inet addr show",
     "ip route | grep default | awk '{print $3}'", "pvesh get status", "pct exec ping"}

\* this step is a network-default probe in which subprocess.run raised
\* something other than the command's failure: run_command did not return
ProbeInterrupted ==
    /\ pc \in {"probe_interface", "probe_cidr", "probe_gateway"}
    /\ last_cmd' = last_cmd

\* this step is a call of run_command that returned or ended the process
Called == ((cmds' # cmds /\ pc # "exec_script") \/ InLoop) /\ ~ProbeInterrupted

\* C3: a failed command run with exit_on_error prints an error line and ends
\* the process with status 1, and nothing runs after the process has ended; a
\* failed command run without it returns None and the caller goes on; only
\* the network-default probes and the readiness probes are run without it.
C3_Step ==
    /\ pc # "exited"
    /\ Called =>
          /\ last_cmd'.ok => last_cmd'.result = "stdout" /\ pc' # "exited"
          /\ ~last_cmd'.ok /\ last_cmd'.exit_on_error =>
                pc' = "exited" /\ exit_code' = "1" /\ "ERROR" \in msgs'
          /\ ~last_cmd'.ok /\ ~last_cmd'.exit_on_error =>
                last_cmd'.result = "None" /\ pc' # "exited" /\ exit_code' = "none"
          /\ last_cmd'.exit_on_error <=> last_cmd'.c \notin ProbeCommands
    /\ ProbeInterrupted => pc' = "net_prompts" /\ exit_code' = "none"

C3_RunCommandFailure == [][C3_Step]_vars

\* the address probe failed and the workflow went on to the container's
\* creation, whose failure ended the process
C3_Witness ==
    /\ default_cidr = None
    /\ last_cmd.c = "pct create"
    /\ ~last_cmd.ok
    /\ exit_code = "1"
    /\ ~ct.created

----------------------------------------------------------------------------
(* The container-id prompt on every short answer *)

\* every text of at most n characters of chars
Strings(chars, n) == UNION { [1..k -> chars] : k \in 0..n }

AskAlphabet == {"0", "9", "a", " "}

\* the state in which main reaches the container-id prompt on a host whose
\* only backend lists both content types, with no custom modules
InitAsk ==
    LET host == <<Backend(TxtLocal, <<"vztmpl", "rootdir">>, Num(4), Num(1))>>
        listing == [c |-> "pvesh get storage", a |-> <<>>]
    IN  /\ pc = "ask_vm_id"
        /\ exit_code = "none"
        /\ msgs = {}
        /\ cmds = <<[c |-> "hostname", a |-> <<>>], listing>>
        /\ last_cmd = [c |-> "pvesh get storage", exit_on_error |-> TRUE, ok |-> TRUE,
                       result |-> "stdout"]
        /\ typed = <<>>
        /\ custom_modules = <<>>
        /\ host_storage = host
        /\ storage_data = host
        /\ storage = TxtLocal
        /\ content_type = "vztmpl"
        /\ support = [t \in {"rootdir", "vztmpl"} |-> "listed"]
        /\ shown = show_storages(host)
        /\ config = <<>>
        /\ ask_warning = FALSE
        /\ mac_error = FALSE
        /\ use_public_ip = FALSE
        /\ default_interface = Unbound
        /\ default_cidr = Unbound
        /\ default_suggested_ip = Unbound
        /\ default_mask = Unbound
        /\ default_gateway = Unbound
        /\ host_volumes = <<>>
        /\ template_content = <<>>
        /\ host_tmp = [netcfg |-> <<>>, tars |-> {}, install_sh |-> <<>>]
        /\ ct = NoContainer
        /\ attempt = -1
        /\ network_check_shown = FALSE
        /\ last_probe = [attempt |-> -1, c |-> "", ok |-> FALSE]
        /\ mod_i = 0
        /\ return_code = -1

NextAsk == AskVmIdFrom(Strings(AskAlphabet, MaxLen))

SpecAsk == InitAsk /\ [][NextAsk]_vars

\* a three-digit decimal string denoting an integer from 100 to 999
ThreeDigit(s) == Len(s) = 3 /\ AllIn(s, Digits) /\ int(s) \in 100..999

\* what the prompt does with the line `answer` that was typed in this step
VmIdPrompt(answer) ==
    /\ pc' = "ask_hostname" <=> (answer = <<>> \/ ThreeDigit(answer))
    /\ pc' = "ask_hostname" =>
          config'["vm_id"] = (IF answer = <<>> THEN Txt100 ELSE answer)
    /\ pc' # "ask_hostname" => pc' = "ask_vm_id" /\ ask_warning' /\ config' = config

\* C4 as stated: the container-id prompt accepts the typed answer if and only
\* if it is a three-digit decimal string from "100" to "999", re-prompts on
\* every other string, and returns the default "100" on an empty answer.
C4_TypedAnswer == [][VmIdPrompt(typed')]_vars

\* C4: the container-id prompt accepts the typed answer if and only if, once
\* its surrounding whitespace is stripped, it is a three-digit decimal string
\* from "100" to "999" and then returns the stripped string; it re-prompts on
\* every other string, and returns the default "100" on an answer that is
\* empty once stripped.
C4_StrippedAnswer == [][VmIdPrompt(strip(typed'))]_vars

\* the largest container id was typed and accepted
C4_Witness ==
    /\ pc = "ask_hostname"
    /\ typed = <<"9", "9", "9">>
    /\ config["vm_id"] = typed

----------------------------------------------------------------------------
(* Properties of the generated install script *)

ScriptWritten == host_tmp.install_sh # <<>>

\* C5: the generated install script has the custom-module block if and only
\* if the custom-module list is non-empty, its addons_path includes
\* /opt/odoo18/custom_addons in exactly those cases and is /opt/odoo18/addons
\* otherwise, and the words its copy loop iterates over are exactly the
\* modules of the list, in order.
C5_ScriptModules ==
    ScriptWritten =>
        LET script == host_tmp.install_sh[1]
        IN  /\ script.custom_block <=> custom_modules # <<>>
            /\ script.addons_path =
                  (IF custom_modules # <<>>
                   THEN "/opt/odoo18/addons,/opt/odoo18/custom_addons"
                   ELSE "/opt/odoo18/addons")
            /\ script.custom_block => BashWords(script.for_in) = custom_modules

----------------------------------------------------------------------------
(* Properties of the static network configuration *)

\* the command c is among the commands run so far
Ran(c) == \E i \in 1..Len(cmds) : cmds[i].c = c

NetplanSteps ==
    {"netplan_write", "netplan_push", "netplan_chmod", "netplan_rm_default",
     "netplan_apply", "netplan_rm_tmp"}

ProbesStarted == last_probe.attempt >= 0

\* C6: the network configuration file is written, pushed and applied if and
\* only if the operator chose a public IP, after the container's creation
\* succeeded and before the first readiness probe, and it carries the
\* operator's IP with /32, gateway and DNS; with a local IP no file is
\* written or pushed.
C6_Netplan ==
    /\ (\/ pc \in NetplanSteps
        \/ host_tmp.netcfg # <<>>
        \/ ct.netplan # <<>>
        \/ ct.net_applied
        \/ Ran("pct push 01-netcfg.yaml")
        \/ Ran("pct exec netplan apply")) =>
          use_public_ip /\ config["public_ip"] /\ ct.created
    /\ pc \in NetplanSteps => ~ProbesStarted
    /\ use_public_ip /\ (ProbesStarted \/ pc = "poll_start") =>
          /\ ct.netplan # <<>>
          /\ ct.net_applied
          /\ Ran("pct push 01-netcfg.yaml")
          /\ Ran("pct exec netplan apply")
    /\ \A f \in Range(host_tmp.netcfg) \cup Range(ct.netplan) :
          /\ f.addresses = config["ip_address"] \o <<"/", "3", "2">>
          /\ f.gateway4 = config["gateway"]
          /\ f.nameservers = config["dns_servers"]

\* the readiness loop runs in a container that got the typed public address
C6_Witness ==
    /\ use_public_ip
    /\ ProbesStarted
    /\ ct.net_applied
    /\ ct.netplan # <<>>
    /\ ct.netplan[1].addresses = TypedIp \o <<"/", "3", "2">>
    /\ ct.netplan[1].gateway4 = TypedGateway

----------------------------------------------------------------------------
(* The storage display on every small backend *)

\* what pvesh reports as a backend's total or used bytes: a number, or
\* nothing (the key is missing); with 20000 some percentages lie halfway
\* between two hundredths
SizeChoices == {NotAvailable} \cup {Num(n) : n \in 0..MaxSize} \cup {Num(20000)}

\* the state in which main reaches the storage display, for a host with no
\* backend or with one backend
InitStorages ==
    /\ pc = "storages"
    /\ exit_code = "none"
    /\ msgs = {}
    /\ cmds = <<[c |-> "hostname", a |-> <<>>], [c |-> "pvesh get storage", a |-> <<>>]>>
    /\ last_cmd = [c |-> "pvesh get storage", exit_on_error |-> TRUE, ok |-> TRUE,
                   result |-> "stdout"]
    /\ typed = <<>>
    /\ custom_modules = <<>>
    /\ host_storage \in
          { <<>> } \cup
          { <<Backend(TxtLocal, c, total, used)>> :
               c \in { <<>>, <<"images">>, <<"vztmpl", "rootdir">> },
               total \in SizeChoices, used \in SizeChoices }
    /\ storage_data = host_storage
    /\ storage = <<>>
    /\ content_type = ""
    /\ support = [t \in {"rootdir", "vztmpl"} |-> "unchecked"]
    /\ shown = <<>>
    /\ config = <<>>
    /\ ask_warning = FALSE
    /\ mac_error = FALSE
    /\ use_public_ip = FALSE
    /\ default_interface = Unbound
    /\ default_cidr = Unbound
    /\ default_suggested_ip = Unbound
    /\ default_mask = Unbound
    /\ default_gateway = Unbound
    /\ host_volumes = <<>>
    /\ template_content = <<>>
    /\ host_tmp = [netcfg |-> <<>>, tars |-> {}, install_sh |-> <<>>]
    /\ ct = NoContainer
    /\ attempt = -1
    /\ network_check_shown = FALSE
    /\ last_probe = [attempt |-> -1, c |-> "", ok |-> FALSE]
    /\ mod_i = 0
    /\ return_code = -1

NextStorages == Storages

SpecStorages == InitStorages /\ [][NextStorages]_vars

Abs(x) == IF x < 0 THEN -x ELSE x

\* C7: show_storages reports the used percentage of a backend as "N/A" when
\* its total is 0 or its total or used is not a number, and never divides by
\* zero; for a positive total it reports used*100/total, to two decimals.
C7_UsedPercent ==
    /\ exit_code # "unhandled"
    /\ \A i \in 1..Len(shown) :
          LET total == storage_data[i].total
              used == storage_data[i].used
              percent == shown[i].used_percent
          IN  IF ~IsNumber(total) \/ ~IsNumber(used) \/ total.v = 0
              THEN percent = NotAvailable
              ELSE /\ percent.t = "hundredths"
                   /\ 2 * Abs(percent.v * total.v - used.v * 100 * 100) <= total.v

\* a backend with a total of 0 bytes was displayed
C7_Witness ==
    /\ pc = "select_storage"
    /\ Len(shown) = 1
    /\ storage_data[1].total = Num(0)
    /\ storage_data[1].used = Num(0)
    /\ shown[1].used_percent = NotAvailable

----------------------------------------------------------------------------
(* Properties of the storage's content types *)

ContentTypes == {"rootdir", "vztmpl"}

\* the selected backend of the host lists the content type t
HostLists(t) ==
    /\ HasStorage(host_storage, storage)
    /\ InList(t, content_list(FindStorage(host_storage, storage).content))

C8_Created ==
    Ran("pct create") =>
        \A t \in ContentTypes :
            /\ support[t] \in {"listed", "enabled"}
            /\ support[t] = "enabled" => Ran("pvesh set")
            /\ HasStorage(host_storage, storage) => HostLists(t)

C8_Step ==
    /\ pc = "enable_check" /\ ~HasStorage(storage_data, storage) =>
          pc' = "exited" /\ exit_code' = "1" /\ ~Ran("pct create")'
    /\ pc = "enable_confirm" /\ pc' # "enable_set" =>
          pc' = "exited" /\ exit_code' = "1" /\ ~Ran("pct create")'
    /\ pc = "enable_set" /\ ~last_cmd'.ok =>
          pc' = "exited" /\ exit_code' = "1" /\ ~Ran("pct create")' /\ support' = support

\* C8: the container's creation is run only if, for rootdir and for vztmpl,
\* the selected backend listed the type or the operator accepted enabling it
\* and the enabling command succeeded; declining, or a selected storage that
\* is not found, ends the process with an error and no container is created.
C8_CreateNeedsContent == [][C8_Created' /\ C8_Step]_vars

\* the container was created on a backend that listed templates and got
\* container support enabled
C8_Witness ==
    /\ Ran("pct create")
    /\ ct.created
    /\ support["rootdir"] = "enabled"
    /\ support["vztmpl"] = "listed"

----------------------------------------------------------------------------
(* Properties of the base template *)

\* a volume of the list has an id that ends with the template file name
ListsTemplate(volumes) ==
    \E i \in 1..Len(volumes) :
        /\ Len(volumes[i]) >= Len(template)
        /\ volumes[i] = SubSeq(volumes[i], 1, Len(volumes[i]) - Len(template)) \o template

\* every run of command a comes before every run of command b
Before(a, b) ==
    \A j \in 1..Len(cmds) :
        cmds[j].c = b => \A i \in 1..Len(cmds) : cmds[i].c = a => i < j

C9_Template ==
    LET ran == {cmds[i].c : i \in 1..Len(cmds)}
    IN  /\ "pveam update" \in ran \/ "pveam download" \in ran =>
              /\ "pvesh get content" \in ran
              /\ ~ListsTemplate(template_content)
              /\ Before("pvesh get content", "pveam update")
              /\ Before("pveam update", "pveam download")
              /\ Before("pveam download", "pct create")
        /\ "pveam download" \in ran => "pveam update" \in ran
        /\ "pct create" \in ran =>
              /\ "pvesh get content" \in ran
              /\ Before("pvesh get content", "pct create")
              /\ ListsTemplate(host_volumes)
              /\ "pveam download" \in ran <=> ~ListsTemplate(template_content)

C9_Step ==
    pc \in {"template_list", "pveam_update", "pveam_download"} /\ ~last_cmd'.ok =>
        pc' = "exited" /\ exit_code' = "1" /\ ~Ran("pct create")'

\* C9: when the container's creation is run the template is on the selected
\* storage: pveam update and pveam download are run, in that order and before
\* the creation, exactly when the content listing has no volume whose id ends
\* with the template file name; a failed listing, update or download ends
\* the process before the creation.
\* (C9_Template reads the commands run and the two listings only, so it is
\* evaluated after the steps that change one of them.)
C9_TemplatePresent ==
    [][(UNCHANGED <<cmds, template_content, host_volumes>> \/ C9_Template') /\ C9_Step]_vars

\* the container was created from a template that had to be downloaded
C9_Witness ==
    /\ Ran("pveam download")
    /\ Ran("pct create")
    /\ ct.created
    /\ ~ListsTemplate(template_content)
    /\ ListsTemplate(host_volumes)

----------------------------------------------------------------------------
(* Properties of the transfer of the custom modules *)

TransferSteps ==
    <<"tar -czf", "pct push tar", "pct exec tar -xzf", "rm tar", "pct exec rm tar">>

\* the transfer commands run on the module m, in the order they were run
RunsOn(m) == SelectSeq(cmds, LAMBDA x : x.c \in Range(TransferSteps) /\ x.a = m)

\* the transfer commands run on m so far are the first steps, in order
InOrder(m) ==
    LET runs == RunsOn(m)
    IN  /\ Len(runs) <= Len(TransferSteps)
        /\ \A k \in 1..Len(runs) : runs[k].c = TransferSteps[k]

Executed == Ran("pct exec bash odoo_install.sh")

\* the statements of the transfer loop, lines 504-517
TransferPcs == {"tar", "push_tar", "extract", "rm_tar", "rm_ct_tar"}

\* the install script is about to be executed: every module has gone through
\* the five transfer steps and is in the container's /tmp/custom_modules
C10_Executing ==
    LET script == ct.install_sh[1]
    IN  /\ \A m \in Range(custom_modules) :
              /\ InOrder(m)
              /\ Len(RunsOn(m)) = Len(TransferSteps)
              /\ m \in ct.custom_modules
        /\ \A w \in Range(BashWords(script.for_in)) \cap Range(custom_modules) :
              w \in ct.custom_modules
        /\ custom_modules = <<>> => ~script.custom_block /\ script.for_in = <<>>

C10_Step ==
    /\ pc \in TransferPcs =>
          /\ custom_modules # <<>>
          /\ \A m \in Range(custom_modules) : InOrder(m)'
    /\ pc \notin TransferPcs /\ Len(cmds') > Len(cmds) =>
          cmds'[Len(cmds')].c \notin Range(TransferSteps)
    /\ pc = "exec_script" =>
          /\ C10_Executing
          /\ cmds' = Append(cmds, [c |-> "pct exec bash odoo_install.sh", a |-> <<>>])

\* C10: when the install script is executed in the container, every custom
\* module its copy loop names has been archived, pushed and extracted into
\* the container's /tmp/custom_modules, each module in the order archive,
\* push, extract, clean up; with no custom modules no archive, push or
\* extract is run (the transfer steps are run by the transfer loop only, which
\* is entered with modules only) and the script has no copy loop.
C10_ModulesBeforeInstall == [][C10_Step]_vars

\* the install script ran after two custom modules were extracted
C10_Witness ==
    /\ Executed
    /\ Len(custom_modules) = 2
    /\ ct.custom_modules = Range(custom_modules)
    /\ ct.install_sh[1].custom_block

----------------------------------------------------------------------------
(* Properties of the prompts that carry a validation pattern *)

Prompt(at, key, default, validation) ==
    [at |-> at, key |-> key, default |-> default, validation |-> validation]

\* the prompts of main that fill the configuration and carry a pattern
PatternPrompts ==
    { Prompt("ask_vm_id", "vm_id", Txt100, PatVmId),
      Prompt("ask_hostname", "hostname", TxtOdooServer, PatHost),
      Prompt("ask_password", "password", TxtCambiame, PatAny),
      Prompt("ask_memory", "memory", Txt4096, PatDigits),
      Prompt("ask_disk", "disk", Txt20, PatDigits),
      Prompt("ask_cores", "cores", Txt2, PatDigits),
      Prompt("ask_public_ip", "ip_address", <<>>, PatIp),
      Prompt("ask_public_gateway", "gateway", default_gateway, PatIp),
      Prompt("ask_local_ip", "ip_address", default_suggested_ip, PatIp),
      Prompt("ask_netmask", "netmask", default_mask, PatDigits),
      Prompt("ask_local_gateway", "gateway", default_gateway, PatIp),
      Prompt("ask_odoo_user", "odoo_user", TxtOdoo18, PatUser),
      Prompt("ask_db_password", "db_password", TxtAdmin2025, PatAny) }

\* the value is a text that the pattern matches
Matches(validation, value) == value # None /\ re_match(validation, value)

\* one turn of the prompt p, whose default is bound, on the line typed in it
PromptTurn(p) ==
    LET answer == strip(typed')
        value == IF answer # <<>> THEN answer ELSE p.default
    IN  IF Matches(p.validation, value)
        THEN /\ pc' \notin {p.at, "exited"}
             /\ config'[p.key] = value
             /\ ~ask_warning'
        ELSE /\ pc' = p.at
             /\ ask_warning'
             /\ exit_code' = "none"
             /\ config' = config

\* C11: a prompt with a validation pattern returns only a value that matches
\* the pattern; an empty answer is replaced by the default, which is checked
\* like an answer, and a value that does not match gives a warning and a new
\* prompt, never a return and never the end of the process.
C11_AskReturnsMatching ==
    [][\A p \in PatternPrompts : pc = p.at /\ p.default # Unbound => PromptTurn(p)]_vars

----------------------------------------------------------------------------
(* The two content checks on every short content list *)

AllTypes == {"images", "iso", "rootdir", "vztmpl"}

\* the content lists of at most MaxContent types, none of them twice
ContentLists ==
    { c \in UNION { [1..k -> AllTypes] : k \in 0..MaxContent } :
         \A i, j \in 1..Len(c) : c[i] = c[j] => i = j }

\* the state in which main reaches the first content check: the only
\* backend of the host was listed, displayed and selected
InitEnable ==
    /\ pc = "enable_check"
    /\ exit_code = "none"
    /\ msgs = {}
    /\ cmds = <<[c |-> "hostname", a |-> <<>>], [c |-> "pvesh get storage", a |-> <<>>]>>
    /\ last_cmd = [c |-> "pvesh get storage", exit_on_error |-> TRUE, ok |-> TRUE,
                   result |-> "stdout"]
    /\ typed = <<>>
    /\ custom_modules = <<>>
    /\ host_storage \in { <<Backend(TxtLocal, c, Num(4), Num(1))>> : c \in ContentLists }
    /\ storage_data = host_storage
    /\ storage = TxtLocal
    /\ content_type = "rootdir"
    /\ support = [t \in {"rootdir", "vztmpl"} |-> "unchecked"]
    /\ shown = show_storages(host_storage)
    /\ config = <<>>
    /\ ask_warning = FALSE
    /\ mac_error = FALSE
    /\ use_public_ip = FALSE
    /\ default_interface = Unbound
    /\ default_cidr = Unbound
    /\ default_suggested_ip = Unbound
    /\ default_mask = Unbound
    /\ default_gateway = Unbound
    /\ host_volumes = <<>>
    /\ template_content = <<>>
    /\ host_tmp = [netcfg |-> <<>>, tars |-> {}, install_sh |-> <<>>]
    /\ ct = NoContainer
    /\ attempt = -1
    /\ network_check_shown = FALSE
    /\ last_probe = [attempt |-> -1, c |-> "", ok |-> FALSE]
    /\ mod_i = 0
    /\ return_code = -1

NextEnable ==
    \/ EnableCheck
    \/ EnableConfirm
    \/ EnableSet
    \/ GetStorageHostname
    \/ GetStoragePvesh

SpecEnable == InitEnable /\ [][NextEnable]_vars

\* the content list of the selected backend on the host
HostContent == FindStorage(host_storage, storage).content

IsPrefix(a, b) == Len(a) <= Len(b) /\ SubSeq(b, 1, Len(a)) = a

\* the list sent by pvesh set is the list read before with the type appended,
\* and the host's list only grows at its end
C12_Step ==
    /\ IsPrefix(HostContent, HostContent')
    /\ pc = "enable_set" =>
          LET sent == cmds'[Len(cmds')].a
          IN  /\ sent = HostContent \o <<content_type>>
              /\ last_cmd'.ok => HostContent' = sent
              /\ ~last_cmd'.ok => HostContent' = HostContent
    /\ pc # "enable_set" => HostContent' = HostContent

\* both checks are over
C12_Checked ==
    pc = "ask_vm_id" =>
        /\ InList("rootdir", HostContent)
        /\ InList("vztmpl", HostContent)
        /\ storage_data = host_storage

\* C12: enabling a missing content type only adds it: the list sent to the
\* host is the previous list with the type appended (the type alone for an
\* empty list), the second check runs on the data read again after the first
\* enabling, and after both checks the backend's list has rootdir, vztmpl and
\* every type it had at first.
C12_EnableOnlyAdds == [][C12_Step /\ C12_Checked']_vars

\* a backend that listed only images got both types enabled
C12_Witness ==
    /\ pc = "ask_vm_id"
    /\ support = [t \in {"rootdir", "vztmpl"} |-> "enabled"]
    /\ HostContent = <<"images", "rootdir", "vztmpl">>

----------------------------------------------------------------------------
(* Properties of the network defaults *)

LocalPrompts == {"ask_local_ip", "ask_netmask", "ask_local_gateway", "ask_local_dns"}

\* C13: whatever the probes of the host's network defaults come to, the
\* suggested IP, the mask and the gateway defaults are all bound when the
\* local-network prompts are reached, so that no prompt ends the workflow
\* with a NameError.
C13_DefaultsDefined ==
    pc \in LocalPrompts =>
        /\ default_suggested_ip # Unbound
        /\ default_mask # Unbound
        /\ default_gateway # Unbound

----------------------------------------------------------------------------
(* Properties of the install script's exit status *)

InstallWarning == "WARNING install exit code" \in msgs
InstallSuccess == "SUCCESS install" \in msgs
InstallError == "ERROR install" \in msgs

\* the script ended with an exit status (return_code is bound)
ScriptEnded == return_code # -1
Completed == "INSTALACION COMPLETADA" \in msgs

C14_Step ==
    /\ pc = "exec_script" =>
          /\ pc' = "rm_script"
          /\ exit_code' = "none"
          /\ ScriptEnded' /\ return_code' # 0 => InstallWarning' /\ ~InstallSuccess'
          /\ ScriptEnded' /\ return_code' = 0 => InstallSuccess' /\ ~InstallWarning'
          /\ ~ScriptEnded' => InstallError' /\ ~InstallWarning' /\ ~InstallSuccess'
    /\ pc = "rm_script" =>
          /\ last_cmd'.c = "rm /tmp/odoo_install.sh"
          /\ last_cmd'.ok => pc' = "final" /\ host_tmp'.install_sh = <<>>
          /\ msgs' \ {"ERROR"} = msgs
    /\ pc = "final" =>
          /\ Completed'
          /\ pc' = "exited"
          /\ exit_code' = "0"
          /\ msgs' \ {"INSTALACION COMPLETADA"} = msgs

C14_State ==
    /\ InstallWarning \/ InstallSuccess => Executed
    /\ Completed =>
          /\ Executed
          /\ InstallWarning <=> ScriptEnded /\ return_code # 0
          /\ InstallSuccess <=> ScriptEnded /\ return_code = 0
          /\ host_tmp.install_sh = <<>>
          /\ exit_code = "0"

\* C14: a non-zero exit status of the install script does not end the
\* workflow: a warning is shown in place of the success message, the host's
\* copy of the script is removed and the completion summary is displayed, as
\* after a zero exit status.
C14_NonZeroContinues == [][C14_Step /\ C14_State']_vars

\* the workflow ran to its completion summary after the script failed
C14_Witness ==
    /\ pc = "exited"
    /\ return_code = 1
    /\ InstallWarning
    /\ Completed
    /\ host_tmp.install_sh = <<>>

====
